---- MODULE Spec2Model ----
(***************************************************************************)
(* FLOUZ point of sale: the in-memory store (server/storage.ts), the HTTP  *)
(* handlers over it (server/routes.ts) and the register closure           *)
(* (server/telegram.ts).                                                   *)
(*                                                                         *)
(* Every handler is one action: with MemStorage each await resolves on the *)
(* microtask queue, so a handler runs to completion before the next        *)
(* request is taken.  The handlers that are split are the ones whose       *)
(* properties ask for it: close-register suspends on the outbound fetch,   *)
(* checkout is given store-call granularity in SpecSaleConc, SpecOversell  *)
(* and SpecAttribution, login in SpecLoginConc and select-user in          *)
(* SpecSelectConc.                                                         *)
(*                                                                         *)
(* Money is in integer cents ("2.50" is 250); a token is the number of the *)
(* session it was drawn for (nanoid(32) never repeats a value).            *)
(***************************************************************************)
EXTENDS Integers, Sequences, FiniteSets, Bags, TLC

VARIABLES
    accounts,                   \* id -> account record
    users,                      \* id -> employee record
    sessions,                   \* token -> session record
    categories,                 \* id -> category record
    products,                   \* id -> product record
    transactions,               \* id -> transaction record
    transactionItems,           \* id -> line item record
    currentAccountId,
    currentUserId,
    currentSessionId,
    currentCategoryId,
    currentProductId,
    currentTransactionId,
    currentTransactionItemId,
    now,                        \* the clock, in days
    issued,                     \* history: issued[t] is the account token t was issued for
    pending,                    \* bag of tokens whose close-register awaits the dispatch
    sale,                       \* the checkout requests in flight, by slot
    calls,                      \* the login and select-user requests in flight, by slot
    last                        \* the last handler step and the response it sent

acctVars == <<accounts, currentAccountId>>
userVars == <<users, currentUserId>>
sessVars == <<sessions, currentSessionId, issued>>
catVars  == <<categories, currentCategoryId>>
prodVars == <<products, currentProductId>>
txVars   == <<transactions, transactionItems, currentTransactionId, currentTransactionItemId>>
vars == <<accounts, users, sessions, categories, products, transactions,
          transactionItems, currentAccountId, currentUserId, currentSessionId,
          currentCategoryId, currentProductId, currentTransactionId,
          currentTransactionItemId, now, issued, pending, sale, calls, last>>

\* The whole store, as one value.
store == <<accounts, users, sessions, categories, products, transactions, transactionItems>>

(***************************************************************************)
(* Bounds                                                                  *)
(***************************************************************************)
MaxAccountId == 3       \* accounts ever created (2 are seeded)
MaxUserId == 3          \* employees ever created (2 are seeded)
MaxSessionId == 3       \* sessions ever created
MaxNow == 7             \* the clock stops here
MaxPending == 1         \* close-register requests awaiting the dispatch at once

(***************************************************************************)
(* Values                                                                  *)
(***************************************************************************)
NoId == 0               \* null / undefined in an id position (falsy, like 0)
NoToken == 0            \* no Authorization header
UnknownToken == -1      \* a bearer token the server never issued
NoStock == -1           \* stock: null (untracked)
Null == "null"          \* null in a text position
SessionTtl == 7         \* days

Remove(f, k) == [x \in DOMAIN f \ {k} |-> f[x]]
Put(f, k, v) == [x \in DOMAIN f \cup {k} |-> IF x = k THEN v ELSE f[x]]
\* { ...record, ...patch }
Merge(record, patch) ==
    [f \in DOMAIN record |-> IF f \in DOMAIN patch THEN patch[f] ELSE record[f]]

Min(S) == CHOOSE x \in S : \A y \in S : x <= y

Resp(op, status, token, out) == [op |-> op, status |-> status, token |-> token, out |-> out]

(***************************************************************************)
(* MemStorage: construction                                                *)
(***************************************************************************)
createDemoAccounts ==
    /\ accounts = (1 :> [email |-> "demo@flouz.com", password |-> "demo123",
                         isMaster |-> FALSE, isActive |-> TRUE,
                         telegramChatId |-> Null, telegramBotToken |-> Null])
               @@ (2 :> [email |-> "flouz@mail.com", password |-> "rootsesmort",
                         isMaster |-> TRUE, isActive |-> TRUE,
                         telegramChatId |-> Null, telegramBotToken |-> Null])
    /\ users = (1 :> [accountId |-> 1, firstName |-> "Demo", isActive |-> TRUE])
            @@ (2 :> [accountId |-> 2, firstName |-> "Admin", isActive |-> TRUE])
    /\ currentAccountId = 3
    /\ currentUserId = 3

DemoPrice == <<250, 120, 180, 350, 450, 790, 280, 320>>
DemoCategory == <<1, 1, 1, 2, 3, 3, 4, 4>>
DemoStock == <<50, 30, 100, 25, 15, 10, 20, 12>>

createDemoData ==
    /\ categories = [c \in 1..4 |-> [name |-> <<"Boissons", "Snacks", "Repas", "Desserts">>[c]]]
    /\ products = [p \in 1..8 |-> [price |-> DemoPrice[p], categoryId |-> DemoCategory[p],
                                   stock |-> DemoStock[p], isActive |-> TRUE]]
    /\ currentCategoryId = 5
    /\ currentProductId = 9

Init ==
    /\ createDemoAccounts
    /\ createDemoData
    /\ sessions = << >>
    /\ transactions = << >>
    /\ transactionItems = << >>
    /\ currentSessionId = 1
    /\ currentTransactionId = 1
    /\ currentTransactionItemId = 1
    /\ now = 0
    /\ issued = << >>
    /\ pending = EmptyBag
    /\ sale = << >>
    /\ calls = << >>
    /\ last = Resp("start", 0, NoToken, NoId)

(***************************************************************************)
(* MemStorage: accounts, employees, sessions                               *)
(***************************************************************************)
\* Array.from(accounts.values()).find(...): the first in insertion order.
getAccountByEmail(email) ==
    LET found == {a \in DOMAIN accounts : accounts[a].email = email}
    IN  IF found = {} THEN NoId ELSE Min(found)

\* A variant of getSession that never looks at the expiry.
getSessionAnyAge(token) == IF token \in DOMAIN sessions THEN token ELSE NoToken

\* sessions.get(token) with an expiry still ahead.
getSession(token) ==
    IF token \in DOMAIN sessions /\ sessions[token].expiresAt > now THEN token ELSE NoToken

\* The session map after getSession(token): an expired session is deleted on lookup.
getSessionStore(token) ==
    IF token \in DOMAIN sessions /\ ~(sessions[token].expiresAt > now)
    THEN Remove(sessions, token)
    ELSE sessions

\* Variants of deleteAccountSessions that the session properties must tell apart from
\* it: one revokes nothing, one revokes every account's sessions.
keepAccountSessions(accountId) == sessions
deleteEverySession(accountId) == << >>

deleteAccountSessions(accountId) ==
    [t \in {x \in DOMAIN sessions : sessions[x].accountId # accountId} |-> sessions[t]]

\* A variant of createSession that starts with the demo employee selected.
createSessionSelected(accountId) ==
    [accountId |-> accountId, selectedUserId |-> 1, expiresAt |-> now + SessionTtl]

createSession(accountId) ==
    [accountId |-> accountId, selectedUserId |-> NoId, expiresAt |-> now + SessionTtl]

\* A variant of deleteSession that clears the whole map.
clearSessions(token) == << >>

deleteSession(token) == Remove(sessions, token)

\* A variant of selectUserOk that does not compare the accounts.
selectUserAny(token, userId) == token \in DOMAIN sessions /\ userId \in DOMAIN users

\* The session map after selectUser(token, userId); unchanged when it returns undefined.
selectUserOk(token, userId) ==
    /\ token \in DOMAIN sessions
    /\ userId \in DOMAIN users
    /\ users[userId].accountId = sessions[token].accountId

selectUser(token, userId) ==
    IF selectUserOk(token, userId)
    THEN [sessions EXCEPT ![token].selectedUserId = userId]
    ELSE sessions

(***************************************************************************)
(* routes.ts: the two middlewares                                          *)
(***************************************************************************)
\* A variant of requireAuth that also turns away the session of a disabled account.
requireActive(token) ==
    IF token = NoToken THEN 401
    ELSE IF getSession(token) = NoToken THEN 401
    ELSE IF sessions[token].accountId \notin DOMAIN accounts THEN 401
    ELSE IF ~accounts[sessions[token].accountId].isActive THEN 401
    ELSE 200

\* 200 when next() is called, otherwise the status sent.
requireAuth(token) ==
    IF token = NoToken THEN 401
    ELSE IF getSession(token) = NoToken THEN 401
    ELSE IF sessions[token].accountId \notin DOMAIN accounts THEN 401
    ELSE 200

\* A variant of requireMaster that lets every account through.
requireNothing(token) == 200

requireMaster(token) ==
    IF accounts[sessions[token].accountId].isMaster THEN 200 ELSE 403

\* req.selectedUser: the employee record's id, or NoId when none is selected or found.
selectedUser(token) ==
    IF sessions[token].selectedUserId # NoId /\ sessions[token].selectedUserId \in DOMAIN users
    THEN sessions[token].selectedUserId
    ELSE NoId

RequestTokens == (1..(currentSessionId - 1)) \cup {NoToken, UnknownToken}

\* A request stopped by requireAuth: the lookup may have dropped an expired session.
Unauthenticated(op, token) ==
    /\ sessions' = getSessionStore(token)
    /\ last' = Resp(op, 401, token, NoId)
    /\ UNCHANGED <<accounts, users, categories, products, txVars, currentAccountId,
                   currentUserId, currentSessionId, currentCategoryId, currentProductId,
                   now, issued, pending, sale, calls>>

\* A request answered without touching the store.
Answer(op, status, token) ==
    /\ last' = Resp(op, status, token, NoId)
    /\ UNCHANGED <<store, currentAccountId, currentUserId, currentSessionId,
                   currentCategoryId, currentProductId, currentTransactionId,
                   currentTransactionItemId, now, issued, pending, sale, calls>>

(***************************************************************************)
(* routes.ts: authentication                                               *)
(***************************************************************************)
Emails == {"demo@flouz.com", "flouz@mail.com", "new@flouz.com"}
Passwords == {"demo123", "rootsesmort"}

\* A variant of accountDisabled that never finds an account disabled.
accountEnabled(account) == FALSE

\* !account.isActive
accountDisabled(account) == ~accounts[account].isActive

Login(email, password) ==
    LET account == getAccountByEmail(email) IN
    IF account = NoId \/ accounts[account].password # password
    THEN Answer("login", 401, NoToken)
    ELSE IF accountDisabled(account)
    THEN Answer("login", 401, NoToken)
    ELSE /\ currentSessionId <= MaxSessionId
         /\ sessions' = Put(deleteAccountSessions(account), currentSessionId,
                            createSession(account))
         /\ currentSessionId' = currentSessionId + 1
         /\ issued' = Append(issued, account)
         /\ last' = Resp("login", 200, NoToken, currentSessionId)
         /\ UNCHANGED <<acctVars, userVars, catVars, prodVars, txVars, now, pending, sale, calls>>

SelectUserRoute(token, userId) ==
    IF requireAuth(token) # 200 THEN Unauthenticated("select-user", token)
    ELSE IF ~selectUserOk(token, userId) THEN Answer("select-user", 400, token)
    ELSE /\ sessions' = selectUser(token, userId)
         /\ last' = Resp("select-user", 200, token, NoId)
         /\ UNCHANGED <<acctVars, userVars, catVars, prodVars, txVars, currentSessionId,
                        issued, now, pending, sale, calls>>

Logout(token) ==
    IF requireAuth(token) # 200 THEN Unauthenticated("logout", token)
    ELSE /\ sessions' = deleteSession(token)
         /\ last' = Resp("logout", 200, token, NoId)
         /\ UNCHANGED <<acctVars, userVars, catVars, prodVars, txVars, currentSessionId,
                        issued, now, pending, sale, calls>>

\* Time passes, a session's life at a time: the sessions that were stored before the
\* step have expired after it (expiresAt > now is false at equality).
Tick ==
    \E d \in {SessionTtl} :
        /\ now + d <= MaxNow
        /\ now' = now + d
        /\ last' = Resp("tick", 0, NoToken, NoId)
        /\ UNCHANGED <<store, currentAccountId, currentUserId, currentSessionId,
                       currentCategoryId, currentProductId, currentTransactionId,
                       currentTransactionItemId, issued, pending, sale, calls>>

(***************************************************************************)
(* routes.ts + telegram.ts: closing the register                           *)
(***************************************************************************)
\* !account.telegramChatId || !account.telegramBotToken
telegramMissing(account) ==
    accounts[account].telegramChatId = Null \/ accounts[account].telegramBotToken = Null

\* The handler up to its call of sendTelegramMessage, where it waits for the fetch.
CloseRegisterRoute(token) ==
    IF requireAuth(token) # 200 THEN Unauthenticated("close-register", token)
    ELSE IF selectedUser(token) = NoId THEN Answer("close-register", 400, token)
    ELSE IF telegramMissing(sessions[token].accountId) THEN Answer("close-register", 400, token)
    ELSE /\ BagCardinality(pending) < MaxPending
         /\ pending' = pending (+) SetToBag({token})
         /\ last' = Resp("close-register", 0, token, NoId)
         /\ UNCHANGED <<store, currentAccountId, currentUserId, currentSessionId,
                        currentCategoryId, currentProductId, currentTransactionId,
                        currentTransactionItemId, now, issued, sale, calls>>

\* Variants of closeRegisterSessions: one drops the session whatever the dispatch
\* returned, one never drops it.
closeRegisterAlways(token, success) == deleteSession(token)
closeRegisterNever(token, success) == sessions

\* The session map once sendTelegramMessage has returned `success`.
closeRegisterSessions(token, success) ==
    IF success THEN deleteSession(token) ELSE sessions

\* sendTelegramMessage returns: true when Telegram accepted the message, false when the
\* fetch threw or the API refused.  The handler resumes.
CloseRegisterDispatch(token, success) ==
    /\ BagIn(token, pending)
    /\ pending' = pending (-) SetToBag({token})
    /\ sessions' = closeRegisterSessions(token, success)
    /\ last' = Resp("close-register", IF success THEN 200 ELSE 500, token, NoId)
    /\ UNCHANGED <<acctVars, userVars, catVars, prodVars, txVars, currentSessionId,
                   issued, now, sale, calls>>

(***************************************************************************)
(* routes.ts + storage.ts: accounts (master routes)                        *)
(***************************************************************************)
\* The status the two middlewares leave a master route with.
masterGuard(token) ==
    IF requireAuth(token) # 200 THEN 401 ELSE requireMaster(token)

\* A master route stopped by requireAuth (401) or requireMaster (403).
MasterRejected(op, token) ==
    IF requireAuth(token) # 200 THEN Unauthenticated(op, token) ELSE Answer(op, 403, token)

Seqs(S, n) == UNION {[1..k -> S] : k \in 0..n}

MaxEmployees == 1       \* employees sent along with a new account
DemoAccount == 1        \* demo@flouz.com, the first account created
DemoUser == 1           \* its employee
AdminUser == 2          \* the employee of the master account

\* Request bodies.  A Null email or firstName is a body the zod schema refuses.
NewAccounts ==
    {[email |-> e, password |-> "demo123", isMaster |-> FALSE, isActive |-> TRUE,
      telegramChatId |-> "chat", telegramBotToken |-> "bot"] : e \in {"new@flouz.com", Null}}
NewEmployees == {[firstName |-> n] : n \in {"Ann", Null}}
AccountPatches ==
    { [telegramChatId |-> "chat"],
      [telegramChatId |-> "chat", telegramBotToken |-> "bot"],
      [isActive |-> FALSE],
      [email |-> "demo@flouz.com"] }
UserPatches == {[accountId |-> a] : a \in 2..MaxAccountId} \cup {[isActive |-> FALSE]}

\* The entries before the first one insertUserSchema.parse throws on.
RECURSIVE validPrefix(_)
validPrefix(employees) ==
    IF employees = << >> \/ Head(employees).firstName = Null THEN << >>
    ELSE <<Head(employees)>> \o validPrefix(Tail(employees))

\* GET /api/master/accounts, GET /api/master/users, GET /api/master/analytics
MasterRead(op, token) ==
    IF masterGuard(token) # 200 THEN MasterRejected(op, token)
    ELSE Answer(op, 200, token)

CreateAccount(token, data, employees) ==
    IF masterGuard(token) # 200 THEN MasterRejected("create-account", token)
    ELSE IF data.email = Null THEN Answer("create-account", 500, token)
    ELSE LET made == validPrefix(employees) IN
         /\ currentAccountId <= MaxAccountId
         /\ currentUserId + Len(made) - 1 <= MaxUserId
         /\ accounts' = Put(accounts, currentAccountId, data)
         /\ currentAccountId' = currentAccountId + 1
         /\ users' = [u \in DOMAIN users \cup (currentUserId..(currentUserId + Len(made) - 1)) |->
                        IF u \in DOMAIN users THEN users[u]
                        ELSE [accountId |-> currentAccountId,
                              firstName |-> made[u - currentUserId + 1].firstName,
                              isActive |-> TRUE]]
         /\ currentUserId' = currentUserId + Len(made)
         /\ last' = Resp("create-account", IF Len(made) = Len(employees) THEN 200 ELSE 500,
                         token, currentAccountId)
         /\ UNCHANGED <<sessVars, catVars, prodVars, txVars, now, pending, sale, calls>>

updateAccount(id, patch) == Put(accounts, id, Merge(accounts[id], patch))

UpdateAccount(token, id, patch) ==
    IF masterGuard(token) # 200 THEN MasterRejected("update-account", token)
    ELSE IF id \notin DOMAIN accounts THEN Answer("update-account", 404, token)
    ELSE /\ accounts' = updateAccount(id, patch)
         /\ last' = Resp("update-account", 200, token, id)
         /\ UNCHANGED <<currentAccountId, userVars, sessVars, catVars, prodVars, txVars,
                        now, pending, sale, calls>>

toggleAccountStatus(id) == [accounts EXCEPT ![id].isActive = ~accounts[id].isActive]

ToggleAccount(token, id) ==
    IF masterGuard(token) # 200 THEN MasterRejected("toggle-account", token)
    ELSE IF id \notin DOMAIN accounts THEN Answer("toggle-account", 404, token)
    ELSE /\ accounts' = toggleAccountStatus(id)
         /\ last' = Resp("toggle-account", 200, token, id)
         /\ UNCHANGED <<currentAccountId, userVars, sessVars, catVars, prodVars, txVars,
                        now, pending, sale, calls>>

\* A variant of deleteAccountRefused that refuses no account.
deleteAccountAllowed(id) == FALSE

\* deleteAccount(id) refuses the master account; otherwise the employees and the
\* sessions that name `id` go first, also when no account `id` exists.
deleteAccountRefused(id) == id \in DOMAIN accounts /\ accounts[id].isMaster

DeleteAccount(token, id) ==
    IF masterGuard(token) # 200 THEN MasterRejected("delete-account", token)
    ELSE IF deleteAccountRefused(id) THEN Answer("delete-account", 400, token)
    ELSE /\ users' = [u \in {x \in DOMAIN users : users[x].accountId # id} |-> users[u]]
         /\ sessions' = deleteAccountSessions(id)
         /\ accounts' = Remove(accounts, id)
         /\ last' = Resp("delete-account", IF id \in DOMAIN accounts THEN 200 ELSE 400,
                         token, id)
         /\ UNCHANGED <<currentAccountId, currentUserId, currentSessionId, issued, catVars,
                        prodVars, txVars, now, pending, sale, calls>>

(***************************************************************************)
(* routes.ts + storage.ts: employees (tenant routes and master routes)     *)
(***************************************************************************)
\* The status the middlewares of an employee route leave it with: the /api/master/users
\* routes pass requireAuth and requireMaster, the /api/users routes requireAuth alone.
userGuard(master, token) ==
    IF master THEN masterGuard(token) ELSE requireAuth(token)

UserRejected(op, master, token) ==
    IF master THEN MasterRejected(op, token) ELSE Unauthenticated(op, token)

\* /api/master/users/... or /api/users/...
userOp(master, op) == IF master THEN "master-" \o op ELSE op

\* POST /api/users takes the account of the session, POST /api/master/users the body's.
CreateUser(master, token, accountId, data) ==
    IF userGuard(master, token) # 200 THEN UserRejected(userOp(master, "create-user"), master, token)
    ELSE IF data.firstName = Null THEN Answer(userOp(master, "create-user"), 500, token)
    ELSE /\ currentUserId <= MaxUserId
         /\ users' = Put(users, currentUserId,
                         [accountId |-> IF master THEN accountId ELSE sessions[token].accountId,
                          firstName |-> data.firstName, isActive |-> TRUE])
         /\ currentUserId' = currentUserId + 1
         /\ last' = Resp(userOp(master, "create-user"), 200, token, currentUserId)
         /\ UNCHANGED <<acctVars, sessVars, catVars, prodVars, txVars, now, pending, sale, calls>>

updateUser(id, patch) == Put(users, id, Merge(users[id], patch))

UpdateUser(master, token, id, patch) ==
    IF userGuard(master, token) # 200 THEN UserRejected(userOp(master, "update-user"), master, token)
    ELSE IF id \notin DOMAIN users THEN Answer(userOp(master, "update-user"), 404, token)
    ELSE /\ users' = updateUser(id, patch)
         /\ last' = Resp(userOp(master, "update-user"), 200, token, id)
         /\ UNCHANGED <<acctVars, currentUserId, sessVars, catVars, prodVars, txVars,
                        now, pending, sale, calls>>

toggleUserStatus(id) == [users EXCEPT ![id].isActive = ~users[id].isActive]

ToggleUser(master, token, id) ==
    IF userGuard(master, token) # 200 THEN UserRejected(userOp(master, "toggle-user"), master, token)
    ELSE IF id \notin DOMAIN users THEN Answer(userOp(master, "toggle-user"), 404, token)
    ELSE /\ users' = toggleUserStatus(id)
         /\ last' = Resp(userOp(master, "toggle-user"), 200, token, id)
         /\ UNCHANGED <<acctVars, currentUserId, sessVars, catVars, prodVars, txVars,
                        now, pending, sale, calls>>

deleteUser(id) == Remove(users, id)

DeleteUser(master, token, id) ==
    IF userGuard(master, token) # 200 THEN UserRejected(userOp(master, "delete-user"), master, token)
    ELSE IF id \notin DOMAIN users THEN Answer(userOp(master, "delete-user"), 400, token)
    ELSE /\ users' = deleteUser(id)
         /\ last' = Resp(userOp(master, "delete-user"), 200, token, id)
         /\ UNCHANGED <<acctVars, currentUserId, sessVars, catVars, prodVars, txVars,
                        now, pending, sale, calls>>

MasterReads == {"list-accounts", "master-list-users", "analytics"}

(***************************************************************************)
(* routes.ts + storage.ts: categories and products                         *)
(***************************************************************************)
MaxCategoryId == 5      \* categories ever created (4 are seeded)
MaxProductId == 9       \* products ever created (8 are seeded)

Snacks == 2             \* the seeded category with one product
Chips == 4              \* that product

\* The ids the requests name: the seeded pair and the ones created since.
CategoryIds == {Snacks} \cup ((Len(DemoPrice) \div 2 + 1)..MaxCategoryId)
ProductIds == {Chips} \cup ((Len(DemoPrice) + 1)..MaxProductId)

NoPrice == -1           \* a body without a price

NewCategories == {[name |-> n] : n \in {"Glaces", Null}}
NewProducts ==
    {[price |-> 300, categoryId |-> c, stock |-> 0, isActive |-> TRUE] : c \in {NoId, Snacks}}
    \cup {[price |-> NoPrice, categoryId |-> NoId, stock |-> 0, isActive |-> TRUE]}
CatalogPatches == {[categoryId |-> 1], [categoryId |-> NoId], [isActive |-> FALSE]}
StockPatches == {[price |-> 300], [stock |-> 1], [stock |-> NoStock], [isActive |-> FALSE]}

CreateCategory(token, data) ==
    IF requireAuth(token) # 200 THEN Unauthenticated("create-category", token)
    ELSE IF data.name = Null THEN Answer("create-category", 500, token)
    ELSE /\ currentCategoryId <= MaxCategoryId
         /\ categories' = Put(categories, currentCategoryId, data)
         /\ currentCategoryId' = currentCategoryId + 1
         /\ last' = Resp("create-category", 200, token, currentCategoryId)
         /\ UNCHANGED <<acctVars, userVars, sessVars, prodVars, txVars, now, pending, sale, calls>>

\* categories.delete(id): true when the category was there.
deleteCategory(id) == Remove(categories, id)

DeleteCategoryRoute(token, id) ==
    IF requireAuth(token) # 200 THEN Unauthenticated("delete-category", token)
    ELSE IF id \notin DOMAIN categories THEN Answer("delete-category", 400, token)
    ELSE /\ categories' = deleteCategory(id)
         /\ last' = Resp("delete-category", 200, token, id)
         /\ UNCHANGED <<acctVars, userVars, sessVars, currentCategoryId, prodVars, txVars,
                        now, pending, sale, calls>>

\* The products page: products.filter(p => p.categoryId === categoryId && p.isActive).length
getProductCountByCategory(categoryId) ==
    Cardinality({p \in DOMAIN products :
                    products[p].categoryId = categoryId /\ products[p].isActive})

\* The products page's delete button: a toast and no request while the page counts a
\* product in the category, otherwise the DELETE request.
HandleDeleteCategory(token, id) ==
    /\ id \in DOMAIN categories
    /\ IF getProductCountByCategory(id) > 0
       THEN Answer("handleDeleteCategory", 0, token)
       ELSE DeleteCategoryRoute(token, id)

CreateProduct(token, data) ==
    IF requireAuth(token) # 200 THEN Unauthenticated("create-product", token)
    ELSE IF data.price = NoPrice THEN Answer("create-product", 500, token)
    ELSE /\ currentProductId <= MaxProductId
         /\ products' = Put(products, currentProductId, data)
         /\ currentProductId' = currentProductId + 1
         /\ last' = Resp("create-product", 200, token, currentProductId)
         /\ UNCHANGED <<acctVars, userVars, sessVars, catVars, txVars, now, pending, sale, calls>>

updateProduct(id, patch) == Put(products, id, Merge(products[id], patch))

UpdateProduct(token, id, patch) ==
    IF requireAuth(token) # 200 THEN Unauthenticated("update-product", token)
    ELSE IF id \notin DOMAIN products THEN Answer("update-product", 404, token)
    ELSE /\ products' = updateProduct(id, patch)
         /\ last' = Resp("update-product", 200, token, id)
         /\ UNCHANGED <<acctVars, userVars, sessVars, catVars, currentProductId, txVars,
                        now, pending, sale, calls>>

deleteProduct(id) == Remove(products, id)

\* A variant of DeleteProduct that also drops the line items that name the product.
DeleteProductCascade(token, id) ==
    IF requireAuth(token) # 200 THEN Unauthenticated("delete-product", token)
    ELSE IF id \notin DOMAIN products THEN Answer("delete-product", 400, token)
    ELSE /\ products' = deleteProduct(id)
         /\ transactionItems' = [i \in {x \in DOMAIN transactionItems :
                                           transactionItems[x].productId # id}
                                   |-> transactionItems[i]]
         /\ last' = Resp("delete-product", 200, token, id)
         /\ UNCHANGED <<acctVars, userVars, sessVars, catVars, currentProductId, transactions,
                        currentTransactionId, currentTransactionItemId, now, pending, sale, calls>>

DeleteProduct(token, id) ==
    IF requireAuth(token) # 200 THEN Unauthenticated("delete-product", token)
    ELSE IF id \notin DOMAIN products THEN Answer("delete-product", 400, token)
    ELSE /\ products' = deleteProduct(id)
         /\ last' = Resp("delete-product", 200, token, id)
         /\ UNCHANGED <<acctVars, userVars, sessVars, catVars, currentProductId, txVars,
                        now, pending, sale, calls>>

(***************************************************************************)
(* routes.ts: checkout, one store call at a time                           *)
(***************************************************************************)
MaxCart == 2            \* lines of a cart
MaxQuantity == 2        \* quantity of a line
MaxTransactionId == 2   \* transactions ever created
MaxCheckouts == 2       \* checkout requests in flight at once
MaxSold == 1            \* transactions made where the catalog is edited around the sale

PaymentMethods == {"cash", "card", "check"}
\* Cart lines name a seeded product, or an id no product ever has.
CartLines == {[productId |-> p, quantity |-> q] : p \in {Chips, MaxProductId + 1},
                                                  q \in 1..MaxQuantity}
Carts == Seqs(CartLines, MaxCart)

\* The request's own variables while it is between two store calls.  `before` is
\* history: the products as they were when the request arrived.
checkoutRequest(token, items, paymentMethod) ==
    [token |-> token, accountId |-> sessions[token].accountId,
     userId |-> sessions[token].selectedUserId, items |-> items,
     paymentMethod |-> paymentMethod, pc |-> "total", i |-> 1, total |-> 0,
     transaction |-> NoId, before |-> products]

freeSlots == (1..MaxCheckouts) \ DOMAIN sale

\* requireAuth, the selected-employee check and checkoutSchema.parse.
CheckoutRoute(token, items, paymentMethod) ==
    IF requireAuth(token) # 200 THEN Unauthenticated("checkout", token)
    ELSE IF sessions[token].selectedUserId = NoId THEN Answer("checkout", 400, token)
    ELSE /\ freeSlots # {}
         /\ sale' = Put(sale, Min(freeSlots), checkoutRequest(token, items, paymentMethod))
         /\ last' = Resp("checkout", 0, token, NoId)
         /\ UNCHANGED <<store, currentAccountId, currentUserId, currentSessionId,
                        currentCategoryId, currentProductId, currentTransactionId,
                        currentTransactionItemId, now, issued, pending, calls>>

\* parseFloat(product.price) * item.quantity, in cents
lineTotal(product, quantity) == products[product].price * quantity

\* A variant of CheckoutTotal with one loop instead of two: it writes the line item of
\* each line as soon as the line's product is found.
CheckoutTotalWriting(slot) ==
    /\ slot \in DOMAIN sale
    /\ sale[slot].pc = "total"
    /\ sale[slot].i <= Len(sale[slot].items)
    /\ LET item == sale[slot].items[sale[slot].i] IN
       IF item.productId \notin DOMAIN products
       THEN /\ sale' = Remove(sale, slot)
            /\ last' = Resp("checkout", 400, sale[slot].token, NoId)
            /\ UNCHANGED <<transactionItems, currentTransactionItemId>>
       ELSE /\ sale' = [sale EXCEPT ![slot].i = @ + 1,
                                    ![slot].total = @ + lineTotal(item.productId, item.quantity)]
            /\ last' = Resp("checkout", 0, sale[slot].token, NoId)
            /\ transactionItems' =
                  Put(transactionItems, currentTransactionItemId,
                      [transactionId |-> currentTransactionId, productId |-> item.productId,
                       quantity |-> item.quantity, unitPrice |-> products[item.productId].price,
                       totalPrice |-> lineTotal(item.productId, item.quantity)])
            /\ currentTransactionItemId' = currentTransactionItemId + 1
    /\ UNCHANGED <<acctVars, userVars, sessVars, catVars, prodVars, transactions,
                   currentTransactionId, now, pending, calls>>

\* A variant of CheckoutTotal that refuses a line asking for more than the stock.
CheckoutTotalStock(slot) ==
    /\ slot \in DOMAIN sale
    /\ sale[slot].pc = "total"
    /\ sale[slot].i <= Len(sale[slot].items)
    /\ LET item == sale[slot].items[sale[slot].i] IN
       IF \/ item.productId \notin DOMAIN products
          \/ /\ products[item.productId].stock # NoStock
             /\ products[item.productId].stock < item.quantity
       THEN /\ sale' = Remove(sale, slot)
            /\ last' = Resp("checkout", 400, sale[slot].token, NoId)
       ELSE /\ sale' = [sale EXCEPT ![slot].i = @ + 1,
                                    ![slot].total = @ + lineTotal(item.productId, item.quantity)]
            /\ last' = Resp("checkout", 0, sale[slot].token, NoId)
    /\ UNCHANGED <<store, currentAccountId, currentUserId, currentSessionId,
                   currentCategoryId, currentProductId, currentTransactionId,
                   currentTransactionItemId, now, issued, pending, calls>>

\* First loop: getProduct(item.productId), then 400 or total += ...
CheckoutTotal(slot) ==
    /\ slot \in DOMAIN sale
    /\ sale[slot].pc = "total"
    /\ sale[slot].i <= Len(sale[slot].items)
    /\ LET item == sale[slot].items[sale[slot].i] IN
       IF item.productId \notin DOMAIN products
       THEN /\ sale' = Remove(sale, slot)
            /\ last' = Resp("checkout", 400, sale[slot].token, NoId)
       ELSE /\ sale' = [sale EXCEPT ![slot].i = @ + 1,
                                    ![slot].total = @ + lineTotal(item.productId, item.quantity)]
            /\ last' = Resp("checkout", 0, sale[slot].token, NoId)
    /\ UNCHANGED <<store, currentAccountId, currentUserId, currentSessionId,
                   currentCategoryId, currentProductId, currentTransactionId,
                   currentTransactionItemId, now, issued, pending, calls>>

\* A variant of createTransaction that looks the employee up again and attributes the
\* sale to nobody when the employee is gone.
createTransactionChecked(request) ==
    [accountId |-> request.accountId,
     userId |-> IF request.userId \in DOMAIN users THEN request.userId ELSE NoId,
     paymentMethod |-> request.paymentMethod, total |-> request.total, createdAt |-> now]

createTransaction(request) ==
    [accountId |-> request.accountId, userId |-> request.userId,
     paymentMethod |-> request.paymentMethod, total |-> request.total, createdAt |-> now]

CheckoutCreate(slot) ==
    /\ slot \in DOMAIN sale
    /\ sale[slot].pc = "total"
    /\ sale[slot].i > Len(sale[slot].items)
    /\ currentTransactionId <= MaxTransactionId
    /\ transactions' = Put(transactions, currentTransactionId, createTransaction(sale[slot]))
    /\ currentTransactionId' = currentTransactionId + 1
    /\ sale' = [sale EXCEPT ![slot].pc = "items", ![slot].i = 1,
                            ![slot].transaction = currentTransactionId]
    /\ last' = Resp("checkout", 0, sale[slot].token, NoId)
    /\ UNCHANGED <<acctVars, userVars, sessVars, catVars, prodVars, transactionItems,
                   currentTransactionItemId, now, pending, calls>>

createTransactionItem(request, item) ==
    [transactionId |-> request.transaction, productId |-> item.productId,
     quantity |-> item.quantity, unitPrice |-> products[item.productId].price,
     totalPrice |-> lineTotal(item.productId, item.quantity)]

\* Second loop: getProduct(item.productId) again, then createTransactionItem.  The two
\* calls are one step: a request that lands between them changes no line item.  The
\* loop makes no updateProduct call.
CheckoutItem(slot) ==
    /\ slot \in DOMAIN sale
    /\ sale[slot].pc = "items"
    /\ sale[slot].i <= Len(sale[slot].items)
    /\ LET item == sale[slot].items[sale[slot].i] IN
       IF item.productId \in DOMAIN products
       THEN /\ transactionItems' = Put(transactionItems, currentTransactionItemId,
                                       createTransactionItem(sale[slot], item))
            /\ currentTransactionItemId' = currentTransactionItemId + 1
       ELSE UNCHANGED <<transactionItems, currentTransactionItemId>>
    /\ sale' = [sale EXCEPT ![slot].i = @ + 1]
    /\ last' = Resp("checkout", 0, sale[slot].token, NoId)
    /\ UNCHANGED <<acctVars, userVars, sessVars, catVars, prodVars, transactions,
                   currentTransactionId, now, pending, calls>>

\* res.json(transaction)
CheckoutDone(slot) ==
    /\ slot \in DOMAIN sale
    /\ sale[slot].pc = "items"
    /\ sale[slot].i > Len(sale[slot].items)
    /\ sale' = Remove(sale, slot)
    /\ last' = Resp("checkout", 200, sale[slot].token, sale[slot].transaction)
    /\ UNCHANGED <<store, currentAccountId, currentUserId, currentSessionId,
                   currentCategoryId, currentProductId, currentTransactionId,
                   currentTransactionItemId, now, issued, pending, calls>>

CheckoutStep ==
    \E slot \in 1..MaxCheckouts :
        CheckoutTotal(slot) \/ CheckoutCreate(slot) \/ CheckoutItem(slot) \/ CheckoutDone(slot)

(***************************************************************************)
(* routes.ts + storage.ts: listing the transactions                        *)
(***************************************************************************)
\* The ids of the transactions getTransactions(userId) returns: those of the employee,
\* or every transaction when userId is undefined.
getTransactions(userId) ==
    IF userId # NoId
    THEN {x \in DOMAIN transactions : transactions[x].userId = userId}
    ELSE DOMAIN transactions

\* What GET /api/transactions sends to the bearer of a token that resolves:
\* getTransactions(session.selectedUserId || undefined).
listTransactions(token) == getTransactions(sessions[token].selectedUserId)

ListTransactions(token) ==
    IF requireAuth(token) # 200 THEN Unauthenticated("list-transactions", token)
    ELSE Answer("list-transactions", 200, token)

(***************************************************************************)
(* telegram.ts + routes.ts: the daily summary                              *)
(***************************************************************************)
MaxDays == 1            \* midnights passed where the summary is drawn

\* A variant of createdToday that takes every day for today.
createdAnyDay(transaction) == TRUE

\* transactionDate >= startOfDay && transactionDate < endOfDay, the clock being in
\* days: startOfDay is today's date and endOfDay the next one.
createdToday(transaction) ==
    /\ transactions[transaction].createdAt >= now
    /\ transactions[transaction].createdAt < now + 1

\* The forEach over todayTransactions: the sum of the totals paid by one of `methods`.
RECURSIVE revenue(_, _)
revenue(ids, methods) ==
    IF ids = {} THEN 0
    ELSE LET x == CHOOSE y \in ids : TRUE IN
         (IF transactions[x].paymentMethod \in methods THEN transactions[x].total ELSE 0)
         + revenue(ids \ {x}, methods)

getDailySummary(userId) ==
    LET todayTransactions == {x \in getTransactions(userId) : createdToday(x)} IN
    [totalRevenue |-> revenue(todayTransactions, PaymentMethods),
     cashRevenue |-> revenue(todayTransactions, {"cash"}),
     cardRevenue |-> revenue(todayTransactions, {"card"}),
     checkRevenue |-> revenue(todayTransactions, {"check"}),
     totalTransactions |-> Cardinality(todayTransactions)]

\* formatDailySummaryMessage's "Ticket moyen", in cents: (total / count).toFixed(2)
\* rounds to the nearest cent, '0.00' without transactions.
averageTicket(summary) ==
    IF summary.totalTransactions > 0
    THEN (2 * summary.totalRevenue + summary.totalTransactions)
             \div (2 * summary.totalTransactions)
    ELSE 0

\* POST /api/daily-summary; `sent` is what sendTelegramMessage returns.  The route
\* writes nothing, before or after the dispatch.
DailySummaryRoute(token, sent) ==
    IF requireAuth(token) # 200 THEN Unauthenticated("daily-summary", token)
    ELSE IF sessions[token].selectedUserId = NoId THEN Answer("daily-summary", 400, token)
    ELSE IF sessions[token].selectedUserId \notin DOMAIN users
    THEN Answer("daily-summary", 400, token)
    ELSE IF telegramMissing(sessions[token].accountId) THEN Answer("daily-summary", 400, token)
    ELSE Answer("daily-summary", IF sent THEN 200 ELSE 500, token)

\* Midnight: the date changes.
Midnight ==
    /\ now + 1 <= MaxNow
    /\ now' = now + 1
    /\ last' = Resp("midnight", 0, NoToken, NoId)
    /\ UNCHANGED <<store, currentAccountId, currentUserId, currentSessionId,
                   currentCategoryId, currentProductId, currentTransactionId,
                   currentTransactionItemId, issued, pending, sale, calls>>

(***************************************************************************)
(* routes.ts + storage.ts: login and select-user, one store call at a time *)
(***************************************************************************)
MaxCalls == 2           \* login and select-user requests in flight at once

freeCalls == (1..MaxCalls) \ DOMAIN calls

\* The other variables of a step that moves a login or a select-user request.
callFrame ==
    UNCHANGED <<acctVars, userVars, catVars, prodVars, txVars, now, pending, sale>>

\* POST /api/auth/login up to its first store call that writes: getAccountByEmail and
\* the two checks on the account it returned.
LoginCall(email, password) ==
    LET account == getAccountByEmail(email) IN
    IF account = NoId \/ accounts[account].password # password
    THEN Answer("login", 401, NoToken)
    ELSE IF accountDisabled(account)
    THEN Answer("login", 401, NoToken)
    ELSE /\ freeCalls # {}
         /\ calls' = Put(calls, Min(freeCalls),
                         [op |-> "login", pc |-> "delete", accountId |-> account])
         /\ last' = Resp("login", 0, NoToken, NoId)
         /\ UNCHANGED <<sessVars>>
         /\ callFrame

\* await storage.deleteAccountSessions(account.id)
LoginDelete(slot) ==
    /\ slot \in DOMAIN calls
    /\ calls[slot].op = "login" /\ calls[slot].pc = "delete"
    /\ sessions' = deleteAccountSessions(calls[slot].accountId)
    /\ calls' = [calls EXCEPT ![slot].pc = "create"]
    /\ last' = Resp("login", 0, NoToken, NoId)
    /\ UNCHANGED <<currentSessionId, issued>>
    /\ callFrame

\* await storage.createSession(account.id), then res.json
LoginCreate(slot) ==
    /\ slot \in DOMAIN calls
    /\ calls[slot].op = "login" /\ calls[slot].pc = "create"
    /\ currentSessionId <= MaxSessionId
    /\ sessions' = Put(sessions, currentSessionId, createSession(calls[slot].accountId))
    /\ currentSessionId' = currentSessionId + 1
    /\ issued' = Append(issued, calls[slot].accountId)
    /\ calls' = Remove(calls, slot)
    /\ last' = Resp("login", 200, NoToken, currentSessionId)
    /\ callFrame

\* POST /api/auth/select-user up to the await inside storage.selectUser: requireAuth,
\* then sessions.get(token) and the call of getUser(userId), whose results the request
\* holds while it waits.  `owner` is the accountId of the employee, NoId for none.
SelectUserCall(token, userId) ==
    IF requireAuth(token) # 200 THEN Unauthenticated("select-user", token) /\ UNCHANGED calls
    ELSE /\ freeCalls # {}
         /\ calls' = Put(calls, Min(freeCalls),
                         [op |-> "select-user", pc |-> "set", token |-> token,
                          userId |-> userId, session |-> sessions[token],
                          owner |-> IF userId \in DOMAIN users
                                    THEN users[userId].accountId ELSE NoId])
         /\ last' = Resp("select-user", 0, token, NoId)
         /\ UNCHANGED <<sessVars>>
         /\ callFrame

\* storage.selectUser after its await: the ownership check on what was read, then
\* sessions.set(token, { ...session, selectedUserId: userId }) and the answer.
SelectUserSet(slot) ==
    /\ slot \in DOMAIN calls
    /\ calls[slot].op = "select-user" /\ calls[slot].pc = "set"
    /\ calls' = Remove(calls, slot)
    /\ IF calls[slot].owner = NoId \/ calls[slot].owner # calls[slot].session.accountId
       THEN /\ last' = Resp("select-user", 400, calls[slot].token, NoId)
            /\ UNCHANGED sessions
       ELSE /\ sessions' = Put(sessions, calls[slot].token,
                               [calls[slot].session EXCEPT !.selectedUserId = calls[slot].userId])
            /\ last' = Resp("select-user", 200, calls[slot].token, NoId)
    /\ UNCHANGED <<currentSessionId, issued>>
    /\ callFrame

(***************************************************************************)
(* Specifications.  Each one lets the requests of one part of the API      *)
(* arrive in any order over the store as constructed.                      *)
(***************************************************************************)
\* A login with the credentials of an account.
LoginOf(account) == Login(accounts[account].email, accounts[account].password)

\* The sessions: login, employee selection, logout, expiry and register closure, while
\* the master adds and deletes accounts.
Next ==
    \/ \E e \in Emails, p \in Passwords : Login(e, p)
    \/ \E t \in RequestTokens, u \in 1..MaxUserId : SelectUserRoute(t, u)
    \/ \E t \in RequestTokens : Logout(t)
    \/ Tick
    \/ \E t \in RequestTokens : CloseRegisterRoute(t)
    \/ \E t \in RequestTokens, ok \in BOOLEAN : CloseRegisterDispatch(t, ok)
    \/ \E t \in DOMAIN sessions, d \in NewAccounts, es \in Seqs(NewEmployees, MaxEmployees) :
          CreateAccount(t, d, es)
    \/ \E t \in DOMAIN sessions, a \in 1..MaxAccountId : DeleteAccount(t, a)

Spec == Init /\ [][Next]_vars

\* Logins against accounts the master deactivates, renames and deletes.
NextLogin ==
    \/ \E e \in Emails, p \in Passwords : Login(e, p)
    \/ \E t \in RequestTokens : Logout(t)
    \/ \E t \in DOMAIN sessions, a \in 1..MaxAccountId, p \in AccountPatches : UpdateAccount(t, a, p)
    \/ \E t \in DOMAIN sessions, a \in 1..MaxAccountId : ToggleAccount(t, a)
    \/ \E t \in DOMAIN sessions, a \in 1..MaxAccountId : DeleteAccount(t, a)

SpecLogin == Init /\ [][NextLogin]_vars

\* The master's routes, called with any token, on the demo account and its employee.
NextMaster ==
    \/ \E a \in DOMAIN accounts : LoginOf(a)
    \/ \E t \in RequestTokens, op \in MasterReads : MasterRead(op, t)
    \/ \E t \in RequestTokens, d \in NewAccounts, es \in Seqs(NewEmployees, MaxEmployees) :
          CreateAccount(t, d, es)
    \/ \E t \in RequestTokens : UpdateAccount(t, DemoAccount, [telegramChatId |-> "chat"])
    \/ \E t \in RequestTokens : ToggleAccount(t, DemoAccount)
    \/ \E t \in RequestTokens : DeleteAccount(t, DemoAccount)
    \/ \E t \in RequestTokens, d \in NewEmployees : CreateUser(TRUE, t, DemoAccount, d)
    \/ \E t \in RequestTokens : UpdateUser(TRUE, t, DemoUser, [isActive |-> FALSE])
    \/ \E t \in RequestTokens : ToggleUser(TRUE, t, DemoUser)
    \/ \E t \in RequestTokens : DeleteUser(TRUE, t, DemoUser)

SpecMaster == Init /\ [][NextMaster]_vars

\* The employees: accounts log in and select employees while the demo account's
\* employee is moved, toggled and deleted, and employees are added, through the tenant
\* routes and the master routes; the master account's employee is toggled through the
\* tenant route.
NextEmployees ==
    \/ \E a \in DOMAIN accounts : LoginOf(a)
    \/ \E t \in DOMAIN sessions, u \in 1..MaxUserId : SelectUserRoute(t, u)
    \/ \E m \in BOOLEAN, t \in DOMAIN sessions, d \in NewEmployees :
          CreateUser(m, t, DemoAccount, d)
    \/ \E m \in BOOLEAN, t \in DOMAIN sessions, p \in UserPatches :
          UpdateUser(m, t, DemoUser, p)
    \/ \E m \in BOOLEAN, t \in DOMAIN sessions : ToggleUser(m, t, DemoUser)
    \/ \E m \in BOOLEAN, t \in DOMAIN sessions : DeleteUser(m, t, DemoUser)
    \/ \E t \in DOMAIN sessions : ToggleUser(FALSE, t, AdminUser)

SpecEmployees == Init /\ [][NextEmployees]_vars

\* The catalog: categories and products, from the API and from the products page.
NextCatalog ==
    \/ LoginOf(DemoAccount)
    \/ \E t \in RequestTokens, d \in NewCategories : CreateCategory(t, d)
    \/ \E t \in RequestTokens, c \in CategoryIds : DeleteCategoryRoute(t, c)
    \/ \E t \in DOMAIN sessions, c \in CategoryIds : HandleDeleteCategory(t, c)
    \/ \E t \in DOMAIN sessions, d \in NewProducts : CreateProduct(t, d)
    \/ \E t \in DOMAIN sessions, p \in ProductIds, d \in CatalogPatches : UpdateProduct(t, p, d)
    \/ \E t \in DOMAIN sessions, p \in ProductIds : DeleteProduct(t, p)

SpecCatalog == Init /\ [][NextCatalog]_vars

\* No checkout is between two store calls.
idle == sale = << >>

\* Checkout requests still arrive: fewer than MaxSold transactions were made.
selling == currentTransactionId <= MaxSold

\* The checkout route answers the token before it reads the cart: 401, or 400 for a
\* session without an employee.
turnedAway(token) ==
    IF requireAuth(token) # 200 THEN TRUE ELSE sessions[token].selectedUserId = NoId

\* The till's requests: the demo account logs in, picks an employee and sells, while
\* the product is edited and deleted.
SaleRequest ==
    \/ LoginOf(DemoAccount)
    \/ \E t \in DOMAIN sessions, u \in DOMAIN users : SelectUserRoute(t, u)
    \/ \E t \in RequestTokens, c \in Carts, m \in PaymentMethods :
          (selling \/ turnedAway(t)) /\ CheckoutRoute(t, c, m)
    \/ \E t \in DOMAIN sessions, d \in StockPatches : UpdateProduct(t, Chips, d)
    \/ \E t \in DOMAIN sessions : DeleteProduct(t, Chips)

\* The till as MemStorage runs it: a checkout is finished before the next request.
NextSale ==
    \/ sale = << >> /\ SaleRequest
    \/ CheckoutStep

SpecSale == Init /\ [][NextSale]_vars

\* What comes after a sale: the demo account sells, then the product is edited and
\* deleted, its category, the employee and the account are deleted, and the session
\* ends by logout or by closing the register.  A checkout is finished before the next
\* request.
NextHistory ==
    \/ idle /\ \E a \in DOMAIN accounts : LoginOf(a)
    \/ idle /\ \E t \in DOMAIN sessions : SelectUserRoute(t, DemoUser)
    \/ idle /\ selling /\ \E t \in DOMAIN sessions, c \in Seqs(CartLines, 1) :
          CheckoutRoute(t, c, "cash")
    \/ CheckoutStep
    \/ idle /\ \E t \in RequestTokens : ListTransactions(t)
    \/ idle /\ \E t \in DOMAIN sessions : UpdateProduct(t, Chips, [price |-> 300])
    \/ idle /\ \E t \in DOMAIN sessions : DeleteProduct(t, Chips)
    \/ idle /\ \E t \in DOMAIN sessions : DeleteCategoryRoute(t, Snacks)
    \/ idle /\ \E t \in DOMAIN sessions : DeleteUser(FALSE, t, DemoUser)
    \/ idle /\ \E t \in DOMAIN sessions :
          UpdateAccount(t, DemoAccount, [telegramChatId |-> "chat", telegramBotToken |-> "bot"])
    \/ idle /\ \E t \in DOMAIN sessions : DeleteAccount(t, DemoAccount)
    \/ idle /\ \E t \in DOMAIN sessions : Logout(t)
    \/ idle /\ \E t \in DOMAIN sessions : CloseRegisterRoute(t)
    \/ idle /\ \E t \in RequestTokens, ok \in BOOLEAN : CloseRegisterDispatch(t, ok)

SpecHistory == Init /\ [][NextHistory]_vars

\* The till with the store's calls as the steps: price edits and deletions land
\* between the store calls of a checkout, one checkout at a time.
NextSaleConc ==
    \/ LoginOf(DemoAccount)
    \/ \E t \in DOMAIN sessions, u \in DOMAIN users : SelectUserRoute(t, u)
    \/ idle /\ selling /\ \E t \in DOMAIN sessions, c \in Carts : CheckoutRoute(t, c, "cash")
    \/ \E t \in DOMAIN sessions : UpdateProduct(t, Chips, [price |-> 300])
    \/ \E t \in DOMAIN sessions : DeleteProduct(t, Chips)
    \/ CheckoutStep

SpecSaleConc == Init /\ [][NextSaleConc]_vars

\* Two tills on the last bag of chips: the stock is set to 1 and checkouts of the
\* product arrive while others are between two store calls.
NextOversell ==
    \/ LoginOf(DemoAccount)
    \/ \E t \in DOMAIN sessions : SelectUserRoute(t, DemoUser)
    \/ \E t \in DOMAIN sessions : UpdateProduct(t, Chips, [stock |-> 1])
    \/ \E t \in DOMAIN sessions, c \in Seqs(CartLines, 1) : CheckoutRoute(t, c, "cash")
    \/ CheckoutStep

SpecOversell == Init /\ [][NextOversell]_vars

\* The day's takings: the two accounts log in, pick their employee and sell, paid in
\* cash, by card or by check, before and after midnight, and ask for the summary.
\* The n-th sale is of n bags of chips, so that the totals differ.
NextSummary ==
    \/ idle /\ \E a \in DOMAIN accounts : LoginOf(a)
    \/ idle /\ \E t \in DOMAIN sessions, u \in {DemoUser, AdminUser} : SelectUserRoute(t, u)
    \/ idle /\ currentTransactionId <= MaxTransactionId
            /\ \E t \in DOMAIN sessions, m \in PaymentMethods :
                  CheckoutRoute(t, <<[productId |-> Chips, quantity |-> currentTransactionId]>>, m)
    \/ CheckoutStep
    \/ idle /\ now < MaxDays /\ Midnight
    \/ idle /\ \E t \in DOMAIN sessions :
          UpdateAccount(t, DemoAccount, [telegramChatId |-> "chat", telegramBotToken |-> "bot"])
    \/ idle /\ \E t \in DOMAIN sessions, sent \in BOOLEAN : DailySummaryRoute(t, sent)

SpecSummary == Init /\ [][NextSummary]_vars

\* Whose sale it is: the demo account sells, with the store's calls as the steps, while
\* its employee is moved to the master account and deleted and while the accounts log
\* in and select.
NextAttribution ==
    \/ \E a \in DOMAIN accounts : LoginOf(a)
    \/ \E t \in DOMAIN sessions : SelectUserRoute(t, DemoUser)
    \/ \E t \in DOMAIN sessions : UpdateUser(FALSE, t, DemoUser, [accountId |-> 2])
    \/ \E t \in DOMAIN sessions : DeleteUser(FALSE, t, DemoUser)
    \/ selling /\ idle /\ \E t \in DOMAIN sessions :
          CheckoutRoute(t, <<[productId |-> Chips, quantity |-> 1]>>, "cash")
    \/ CheckoutStep

SpecAttribution == Init /\ [][NextAttribution]_vars

\* Logins with the store's calls as the steps: a login arrives while another is
\* between deleteAccountSessions and createSession.
NextLoginConc ==
    \/ \E e \in Emails, p \in Passwords : LoginCall(e, p)
    \/ \E slot \in 1..MaxCalls : LoginDelete(slot)
    \/ \E slot \in 1..MaxCalls : LoginCreate(slot)
    \/ \E t \in RequestTokens : Logout(t)

SpecLoginConc == Init /\ [][NextLoginConc]_vars

\* Employee selection with the store's calls as the steps: the session of a request
\* that waits inside selectUser ends by logout, by a new login, by expiry, by closing
\* the register or with its account.
NextSelectConc ==
    \/ \E a \in DOMAIN accounts : LoginOf(a)
    \/ \E t \in RequestTokens : SelectUserCall(t, DemoUser)
    \/ \E slot \in 1..MaxCalls : SelectUserSet(slot)
    \/ \E t \in DOMAIN sessions : Logout(t)
    \/ Tick
    \/ \E t \in DOMAIN sessions :
          UpdateAccount(t, DemoAccount, [telegramChatId |-> "chat", telegramBotToken |-> "bot"])
    \/ \E t \in DOMAIN sessions : CloseRegisterRoute(t)
    \/ \E t \in RequestTokens : CloseRegisterDispatch(t, TRUE)
    \/ \E t \in DOMAIN sessions : DeleteAccount(t, DemoAccount)

SpecSelectConc == Init /\ [][NextSelectConc]_vars
(***************************************************************************)
(* Properties of the sessions                                              *)
(***************************************************************************)
\* The tokens of account a that resolve to a session.
liveSessions(a) ==
    {t \in DOMAIN sessions : sessions[t].accountId = a /\ getSession(t) # NoToken}

\* C1: in every reachable state, each account has at most one live session.
C1_SingleSession ==
    \A a \in 1..MaxAccountId : Cardinality(liveSessions(a)) <= 1

\* An account has logged in twice and holds a live session; another one holds its own.
C1_Witness ==
    \E t1 \in DOMAIN issued, t2 \in DOMAIN issued, t3 \in DOMAIN issued :
        /\ t1 < t2
        /\ issued[t1] = issued[t2]
        /\ liveSessions(issued[t2]) = {t2}
        /\ issued[t3] # issued[t2]
        /\ liveSessions(issued[t3]) = {t3}

\* C2: once an account has logged in again, each token issued to it earlier is refused
\* by requireAuth in every later state; and the login step leaves the sessions of the
\* other accounts as they were, so that their tokens keep resolving.
C2_Revoked ==
    \A t1 \in DOMAIN issued, t2 \in DOMAIN issued :
        (t1 < t2 /\ issued[t1] = issued[t2]) => requireAuth(t1) = 401

C2_OthersKept ==
    currentSessionId' # currentSessionId =>
        \A t \in DOMAIN sessions :
            sessions[t].accountId # issued'[currentSessionId] =>
                t \in DOMAIN sessions' /\ sessions'[t] = sessions[t]

C2_LoginRevokes == [](C2_Revoked) /\ [][C2_OthersKept]_vars

\* The second login of an account has just answered, its first token is refused and
\* the token of another account, issued in between, still resolves.
C2_Witness ==
    /\ last.op = "login" /\ last.status = 200
    /\ \E t1 \in DOMAIN issued, t3 \in DOMAIN issued :
          /\ t1 < t3 /\ t3 < last.out
          /\ issued[t1] = issued[last.out]
          /\ requireAuth(t1) = 401
          /\ issued[t3] # issued[last.out]
          /\ requireAuth(t3) = 200
          /\ requireAuth(last.out) = 200

\* C8: a close-register that answers 400 (no employee selected, Telegram not
\* configured) or 500 (the dispatch failed) changes nothing in the store: the session
\* of the token is what it was, with the same selected employee, and on a 400 the
\* token resolved before the request and resolves after it.
C8_FailureKeepsSession ==
    [][(last'.op = "close-register" /\ last'.status \in {400, 500}) =>
          /\ store' = store
          /\ now' = now
          /\ last'.status = 400 =>
                /\ requireAuth(last'.token) = 200
                /\ sessions'[last'.token] = sessions[last'.token]]_vars

\* The dispatch has just failed and the token still resolves, its employee selected.
C8_Witness ==
    /\ last.op = "close-register" /\ last.status = 500
    /\ requireAuth(last.token) = 200
    /\ selectedUser(last.token) # NoId

\* C9: a close-register that answers 200 has deleted the session of its token, and only
\* that one; the handler's earlier step, which waits for the dispatch, and its failures
\* delete no session.
C9_SuccessDeletesSession ==
    [][last'.op = "close-register" =>
          /\ last'.status = 200 => sessions' = [t \in DOMAIN sessions \ {last'.token} |-> sessions[t]]
          /\ last'.status \in {0, 400, 500} => sessions' = sessions]_vars

\* The dispatch has just succeeded for a token that was issued, and the token is
\* refused.
C9_Witness ==
    /\ last.op = "close-register" /\ last.status = 200
    /\ last.token \in DOMAIN issued
    /\ requireAuth(last.token) = 401

(***************************************************************************)
(* Properties of the login                                                 *)
(***************************************************************************)
\* The credentials that must not log in: unknown email, wrong password, disabled account.
loginFails(email, password) ==
    \/ \A a \in DOMAIN accounts : accounts[a].email # email
    \/ accounts[getAccountByEmail(email)].password # password
    \/ ~accounts[getAccountByEmail(email)].isActive

\* C3: a login with an unknown email, a wrong password or a disabled account answers
\* an error, creates no session and leaves every session as it was.
C3_FailedLogin ==
    [][\A e \in Emails, p \in Passwords :
          (loginFails(e, p) /\ Login(e, p)) =>
              /\ last'.status = 401
              /\ sessions' = sessions
              /\ currentSessionId' = currentSessionId
              /\ issued' = issued]_vars

\* A login has just been refused while a session is stored and an account is disabled.
C3_Witness ==
    /\ last.op = "login" /\ last.status = 401
    /\ sessions # << >>
    /\ \E a \in DOMAIN accounts : ~accounts[a].isActive

(***************************************************************************)
(* Properties of the master's routes                                       *)
(***************************************************************************)
MasterOps ==
    MasterReads \cup {"create-account", "update-account", "toggle-account", "delete-account",
                      "master-create-user", "master-update-user", "master-toggle-user",
                      "master-delete-user"}

\* C7: a master route called without a token answers 401, called with the valid token
\* of an account that is not master it answers 403, and in both cases the store is
\* left as it was.
C7_MasterOnly ==
    [][last'.op \in MasterOps =>
          /\ last'.token = NoToken => (last'.status = 401 /\ store' = store)
          /\ (requireAuth(last'.token) = 200
                /\ ~accounts[sessions[last'.token].accountId].isMaster) =>
                (last'.status = 403 /\ store' = store)]_vars

\* A master route has just refused the valid token of the demo account, after the
\* master changed the store.
C7_Witness ==
    /\ last.op \in MasterOps /\ last.status = 403
    /\ requireAuth(last.token) = 200
    /\ currentAccountId > DemoAccount + 2
(***************************************************************************)
(* Properties of the checkout                                              *)
(***************************************************************************)
\* The quantity a cart asks of a product.
RECURSIVE quantityAsked(_, _)
quantityAsked(items, product) ==
    IF items = << >> THEN 0
    ELSE (IF Head(items).productId = product THEN Head(items).quantity ELSE 0)
         + quantityAsked(Tail(items), product)

tracked(product) == product \in DOMAIN products /\ products[product].stock # NoStock

\* The cart asks more of a product than its tracked stock holds.
insufficientStock(items) ==
    \E k \in DOMAIN items :
        /\ tracked(items[k].productId)
        /\ quantityAsked(items, items[k].productId) > products[items[k].productId].stock

\* C4: a checkout that asks more of a product than its tracked stock is rejected: it
\* creates no transaction and no line item, and the stock stays as it was.
C4_InsufficientStockRejected ==
    [][\A slot \in DOMAIN sale :
          insufficientStock(sale[slot].items) =>
              /\ ~CheckoutCreate(slot)
              /\ ~(CheckoutItem(slot) /\ transactionItems' # transactionItems)]_vars

\* C5: when a checkout has answered 200, each product of the cart with tracked stock
\* holds the stock it had when the request arrived less the quantity sold, and the
\* stock of every other product is what it was.
C5_StockDecremented ==
    [][\A slot \in DOMAIN sale :
          CheckoutDone(slot) =>
              \A p \in DOMAIN sale[slot].before :
                  /\ p \in DOMAIN products'
                  /\ products'[p].stock =
                        IF sale[slot].before[p].stock = NoStock
                        THEN NoStock
                        ELSE sale[slot].before[p].stock - quantityAsked(sale[slot].items, p)]_vars

\* The line items of a transaction, and the sum of their totalPrice.
itemsOf(transaction) ==
    {i \in DOMAIN transactionItems : transactionItems[i].transactionId = transaction}

RECURSIVE sumTotalPrice(_)
sumTotalPrice(ids) ==
    IF ids = {} THEN 0
    ELSE LET i == CHOOSE x \in ids : TRUE
         IN  transactionItems[i].totalPrice + sumTotalPrice(ids \ {i})

\* C6: when a checkout has answered 200, whatever price edits and product deletions
\* landed between its store calls, the transaction's total is the sum of the totalPrice
\* of its line items, each line item's totalPrice is its unitPrice times its quantity,
\* and there is one line item for each line of the cart.
C6_TotalIsSumOfItems ==
    [][\A slot \in DOMAIN sale :
          CheckoutDone(slot) =>
              LET transaction == sale[slot].transaction IN
              /\ transactions[transaction].total = sumTotalPrice(itemsOf(transaction))
              /\ \A i \in itemsOf(transaction) :
                    transactionItems[i].totalPrice =
                        transactionItems[i].unitPrice * transactionItems[i].quantity
              /\ Cardinality(itemsOf(transaction)) = Len(sale[slot].items)]_vars

expired(token) == token \in DOMAIN sessions /\ sessions[token].expiresAt <= now

\* The step is a request arriving, not a handler resuming after its fetch.
requestArrives == BagCardinality(pending') >= BagCardinality(pending)

\* C11: requireAuth answers 401 to a token that is missing, unknown or expired, and
\* lets every other token through to its session, whose account exists.
C11_Resolves ==
    \A t \in RequestTokens :
        IF t = NoToken \/ t \notin DOMAIN sessions \/ expired(t)
        THEN requireAuth(t) = 401
        ELSE requireAuth(t) = 200 /\ sessions[t].accountId \in DOMAIN accounts

\* A request that bears an expired token is answered 401, and the lookup has removed
\* the session.
C11_ExpiredDropped ==
    (requestArrives /\ expired(last'.token)) =>
        /\ last'.status = 401
        /\ last'.token \notin DOMAIN sessions'

C11_ResolveToken == [](C11_Resolves) /\ [][C11_ExpiredDropped]_vars

\* A request has just been refused, the session of its token is gone, no later login
\* replaced it, and another session of the same age is still stored, expired.
C11_Witness ==
    /\ last.status = 401
    /\ last.token \in DOMAIN issued
    /\ last.token \notin DOMAIN sessions
    /\ \A t \in DOMAIN issued : t > last.token => issued[t] # issued[last.token]
    /\ \E t \in DOMAIN sessions : expired(t) /\ t > last.token
(***************************************************************************)
(* Properties of the employee selection                                    *)
(***************************************************************************)
\* C12: select-user with a token that resolves answers 400 and changes nothing when
\* the employee does not exist or belongs to another account than the session's, and
\* otherwise sets the session's selectedUserId to the employee, and nothing else.
C12_SelectEmployee ==
    [][\A t \in RequestTokens, u \in 1..MaxUserId :
          (requireAuth(t) = 200 /\ SelectUserRoute(t, u)) =>
              IF u \notin DOMAIN users \/ users[u].accountId # sessions[t].accountId
              THEN last'.status = 400 /\ store' = store
              ELSE /\ last'.status = 200
                   /\ sessions' = [sessions EXCEPT ![t].selectedUserId = u]
                   /\ <<accounts, users, transactions>>' = <<accounts, users, transactions>>]_vars

\* A selection has just been refused for a token that resolves and keeps the employee
\* it had selected before.
C12_Witness ==
    /\ last.op = "select-user" /\ last.status = 400
    /\ requireAuth(last.token) = 200
    /\ selectedUser(last.token) # NoId
(***************************************************************************)
(* Properties of the sessions' selected employee                           *)
(***************************************************************************)
\* C13: in every reachable state, the employee a stored session has selected exists
\* and belongs to the session's account.
C13_SelectedEmployeeOwned ==
    \A t \in DOMAIN sessions :
        sessions[t].selectedUserId # NoId =>
            /\ sessions[t].selectedUserId \in DOMAIN users
            /\ users[sessions[t].selectedUserId].accountId = sessions[t].accountId
(***************************************************************************)
(* Properties of the logout                                                *)
(***************************************************************************)
\* C14: a logout removes the session of its token and nothing else, whether it answers
\* 200 or, the token not resolving, 401; applied to a token whose session is gone, as
\* it is after a first logout, it leaves the store exactly as it was.
C14_Logout ==
    [][\A t \in RequestTokens :
          Logout(t) =>
              /\ sessions' = [x \in DOMAIN sessions \ {t} |-> sessions[x]]
              /\ <<accounts, users, categories, products, transactions, transactionItems>>'
                    = <<accounts, users, categories, products, transactions, transactionItems>>
              /\ t \notin DOMAIN sessions'
              /\ t \notin DOMAIN sessions => store' = store]_vars

\* A logout has just answered 200, its token's session is gone and the session of
\* another account is still there.
C14_Witness ==
    /\ last.op = "logout" /\ last.status = 200
    /\ last.token \in DOMAIN issued
    /\ last.token \notin DOMAIN sessions
    /\ \E t \in DOMAIN sessions : issued[t] # issued[last.token] /\ requireAuth(t) = 200
(***************************************************************************)
(* Properties of the till's state machine                                  *)
(***************************************************************************)
\* The step is a checkout request arriving: no checkout in flight has moved.
checkoutArrives ==
    /\ last'.op = "checkout"
    /\ \A slot \in DOMAIN sale : slot \in DOMAIN sale' /\ sale'[slot] = sale[slot]

\* A login leaves its account with one session, which has no employee selected.
C15_LoginUnselected ==
    currentSessionId' # currentSessionId =>
        \A t \in DOMAIN sessions' :
            sessions'[t].accountId = sessions'[currentSessionId].accountId =>
                t = currentSessionId /\ sessions'[t].selectedUserId = NoId

\* A session's selected employee is set by a select-user that answers 200 to the
\* session's token, and by no other step.
C15_SelectedBySelectUser ==
    \A t \in DOMAIN sessions' :
        (/\ sessions'[t].selectedUserId # NoId
         /\ (t \notin DOMAIN sessions
                \/ sessions[t].selectedUserId # sessions'[t].selectedUserId)) =>
            last' = Resp("select-user", 200, t, NoId)

\* A checkout on a session with no employee selected answers 400 and changes nothing.
C15_NoEmployeeSelected ==
    (/\ checkoutArrives
     /\ requireAuth(last'.token) = 200
     /\ sessions[last'.token].selectedUserId = NoId) =>
        last'.status = 400 /\ store' = store /\ sale' = sale

\* A transaction is created for the employee the requesting session has selected.
C15_TransactionOfSelected ==
    \A slot \in DOMAIN sale :
        CheckoutCreate(slot) =>
            /\ sale[slot].token \in DOMAIN sessions
            /\ sessions[sale[slot].token].selectedUserId # NoId
            /\ transactions'[currentTransactionId].userId
                  = sessions[sale[slot].token].selectedUserId

\* C15: a session starts with no employee selected, a new login brings its account
\* back to that state, a checkout without a selected employee is refused without any
\* change, and so every transaction comes after a successful select-user on the
\* session that made it.
C15_EmployeeBeforeSale ==
    [][/\ C15_LoginUnselected
       /\ C15_SelectedBySelectUser
       /\ C15_NoEmployeeSelected
       /\ C15_TransactionOfSelected]_vars

\* After a sale the account has logged in again, and the checkout of its new session,
\* which has no employee selected, has just been refused.
C15_Witness ==
    /\ last.op = "checkout" /\ last.status = 400
    /\ requireAuth(last.token) = 200
    /\ sessions[last.token].selectedUserId = NoId
    /\ transactions # << >>
(***************************************************************************)
(* Properties of the checkout's validation                                 *)
(***************************************************************************)
\* The cart has a line for a product that does not exist or is not active.
productUnavailable(items) ==
    \E k \in DOMAIN items :
        \/ items[k].productId \notin DOMAIN products
        \/ ~products[items[k].productId].isActive

\* C16: a checkout whose cart has a line for a missing or inactive product creates no
\* transaction and no line item.
C16_ProductUnavailable ==
    [][\A slot \in DOMAIN sale :
          productUnavailable(sale[slot].items) =>
              /\ ~CheckoutCreate(slot)
              /\ ~(CheckoutItem(slot) /\ transactionItems' # transactionItems)]_vars

\* C17: checkout validates every line of the cart before it writes: each step of the
\* validation leaves the store as it was when the request arrived, and a checkout
\* that a line fails, be it the last one, ends with 400 having created no transaction
\* and no line item.
C17_ValidateBeforeMutate ==
    [][\A slot \in DOMAIN sale :
          (/\ sale[slot].pc = "total"
           /\ sale[slot].i <= Len(sale[slot].items)
           /\ (slot \notin DOMAIN sale' \/ sale'[slot] # sale[slot])) =>
              /\ store' = store
              /\ <<currentTransactionId, currentTransactionItemId>>'
                    = <<currentTransactionId, currentTransactionItemId>>
              /\ sale[slot].transaction = NoId
              /\ sale[slot].before = products
              /\ slot \notin DOMAIN sale' => last'.status = 400]_vars

\* The first line of a two-line cart has been validated and the product of the second
\* line does not exist.
C17_Witness ==
    \E slot \in DOMAIN sale :
        /\ sale[slot].pc = "total"
        /\ Len(sale[slot].items) = 2
        /\ sale[slot].i = 2
        /\ sale[slot].total > 0
        /\ sale[slot].items[2].productId \notin DOMAIN products
(***************************************************************************)
(* Properties of the accounts                                              *)
(***************************************************************************)
\* C18: the deletion of an account that is master, asked by the master, answers 400
\* and changes nothing: the account, its employees and its sessions stay as they were.
C18_MasterNeverDeleted ==
    [][\A t \in DOMAIN sessions, a \in DOMAIN accounts :
          (masterGuard(t) = 200 /\ accounts[a].isMaster /\ DeleteAccount(t, a)) =>
              /\ last'.status = 400
              /\ store' = store]_vars

\* The deletion of the master account has just been refused; its session, with its
\* employee selected, is still there.
C18_Witness ==
    /\ last = Resp("delete-account", 400, last.token, NoId)
    /\ requireAuth(last.token) = 200
    /\ accounts[sessions[last.token].accountId].isMaster
    /\ selectedUser(last.token) # NoId
(***************************************************************************)
(* Properties of the transactions                                          *)
(***************************************************************************)
\* C19: a transaction and its line items, once created, are never modified or removed:
\* every step leaves each stored transaction and each stored line item as it was.
C19_Immutable ==
    [][/\ \A x \in DOMAIN transactions :
             x \in DOMAIN transactions' /\ transactions'[x] = transactions[x]
       /\ \A i \in DOMAIN transactionItems :
             i \in DOMAIN transactionItems' /\ transactionItems'[i] = transactionItems[i]]_vars

\* A sale of the product is on record while the product, its category, the employee
\* who sold it and the account are gone.
C19_Witness ==
    /\ \E i \in DOMAIN transactionItems :
          /\ transactionItems[i].productId = Chips
          /\ transactionItems[i].transactionId \in DOMAIN transactions
          /\ transactions[transactionItems[i].transactionId].userId = DemoUser
    /\ Chips \notin DOMAIN products
    /\ Snacks \notin DOMAIN categories
    /\ DemoUser \notin DOMAIN users
    /\ DemoAccount \notin DOMAIN accounts

\* C20: the list of transactions sent to a caller holds the transactions of the
\* employee its session has selected or, when it has selected none, those of its
\* account, and in no case a transaction of another account.
C20_OwnTransactions ==
    \A t \in DOMAIN sessions :
        requireAuth(t) = 200 =>
            /\ listTransactions(t) =
                  IF sessions[t].selectedUserId # NoId
                  THEN {x \in DOMAIN transactions :
                           transactions[x].userId = sessions[t].selectedUserId}
                  ELSE {x \in DOMAIN transactions :
                           transactions[x].accountId = sessions[t].accountId}
            /\ \A x \in listTransactions(t) :
                  transactions[x].accountId = sessions[t].accountId

(***************************************************************************)
(* Properties of the accounts and the employees                            *)
(***************************************************************************)
\* C21: no two accounts have the same email, whatever accounts were created and
\* updated.
C21_UniqueEmail ==
    \A a, b \in DOMAIN accounts : accounts[a].email = accounts[b].email => a = b

\* C22: the account of every employee exists, after employees were created through
\* either route, after updateUser and after deleteAccount.
C22_EmployeeAccountExists ==
    \A u \in DOMAIN users : users[u].accountId \in DOMAIN accounts

(***************************************************************************)
(* Properties of requests that run at the same time                        *)
(***************************************************************************)
\* The checkouts in flight that have written their transaction and all their lines
\* and are about to answer.
completing == {s \in DOMAIN sale : sale[s].pc = "items" /\ sale[s].i > Len(sale[s].items)}

\* The quantity of a product in the stored lines of a transaction.
RECURSIVE soldIn(_, _)
soldIn(ids, product) ==
    IF ids = {} THEN 0
    ELSE LET i == CHOOSE x \in ids : TRUE IN
         (IF transactionItems[i].productId = product THEN transactionItems[i].quantity ELSE 0)
         + soldIn(ids \ {i}, product)

sold(transaction, product) ==
    soldIn({i \in DOMAIN transactionItems : transactionItems[i].transactionId = transaction},
           product)

C24_OneSessionAfterLogins ==
    calls = << >> =>
        \A a \in DOMAIN accounts : Cardinality(liveSessions(a)) <= 1

(***************************************************************************)
(* Properties of the employee routes                                       *)
(***************************************************************************)
\* C25: an employee that a request updates, toggles or deletes belongs to the account
\* of the request's token, unless that account is a master account.
C25_OwnEmployeesOnly ==
    [][\A u \in DOMAIN users :
          (u \notin DOMAIN users' \/ users'[u] # users[u]) =>
              /\ last'.token \in DOMAIN sessions
              /\ \/ accounts[sessions[last'.token].accountId].isMaster
                 \/ users[u].accountId = sessions[last'.token].accountId]_vars

(***************************************************************************)
(* Properties of the master's account creation                             *)
(***************************************************************************)
\* C26: an account creation that fails, as it does when an entry of its employee list
\* is invalid, creates no account and no employee.
C26_ValidatedBeforeCreated ==
    [][(last'.op = "create-account" /\ last'.status = 500) =>
          /\ accounts' = accounts
          /\ users' = users
          /\ currentAccountId' = currentAccountId
          /\ currentUserId' = currentUserId]_vars

(***************************************************************************)
(* Properties of the daily summary                                         *)
(***************************************************************************)
\* The transactions of an employee made on today's date.
madeToday(userId) ==
    {x \in DOMAIN transactions :
        transactions[x].userId = userId /\ transactions[x].createdAt = now}

RECURSIVE totalOf(_)
totalOf(ids) ==
    IF ids = {} THEN 0
    ELSE LET x == CHOOSE y \in ids : TRUE IN transactions[x].total + totalOf(ids \ {x})

C28_NeverRestored ==
    [][\A t \in 1..(currentSessionId - 1) :
          t \notin DOMAIN sessions => t \notin DOMAIN sessions']_vars

C30_StillResolves ==
    \A t \in DOMAIN sessions :
        (sessions[t].expiresAt > now /\ sessions[t].accountId \in DOMAIN accounts) =>
            requireAuth(t) = 200

\* An update or a toggle of an account changes that account's record and nothing else
\* of the store, and a login that succeeds is a login to an active account.
C30_OnlyTheAccount ==
    /\ (last'.op \in {"update-account", "toggle-account"} /\ last'.status = 200) =>
          /\ sessions' = sessions
          /\ users' = users
          /\ DOMAIN accounts' = DOMAIN accounts
          /\ \A a \in DOMAIN accounts \ {last'.out} : accounts'[a] = accounts[a]
    /\ (last'.op = "login" /\ last'.status = 200 /\ last' # last) =>
          accounts[sessions'[last'.out].accountId].isActive

\* C30: deactivating an account changes only the account's record: the sessions are as
\* they were, a token issued before keeps resolving, and only new logins are refused.
C30_DeactivationKeepsSessions == [](C30_StillResolves) /\ [][C30_OnlyTheAccount]_vars

\* The demo account was deactivated after it had logged in, and its token has just
\* been accepted by the logout route.
C30_Witness ==
    /\ last.op = "logout" /\ last.status = 200
    /\ last.token \in DOMAIN issued
    /\ issued[last.token] = DemoAccount
    /\ DemoAccount \in DOMAIN accounts
    /\ ~accounts[DemoAccount].isActive
====
